---- MODULE Spec2Model ----
(***************************************************************************)
(* A model of routerify's Router: the three ordered entry lists, the       *)
(* RegexSet built over their concatenation, and Router::process as the      *)
(* sequence of steps between its await points.                              *)
(*                                                                          *)
(* Indices are 0-based as in the source; list[idx + 1] is the element the   *)
(* source writes list[idx].                                                 *)
(***************************************************************************)
EXTENDS Integers, Sequences, FiniteSets, TLC

\* Bounds of the model.
MaxEntries == 3      \* entries of one router, over its three lists together
MaxBuilds == 1       \* init_regex_set calls the model follows
MaxStores == 3       \* entries stored into one PathParams value

----------------------------------------------------------------------------
\* Values

Methods == {"GET", "POST"}

\* The method restrictions a route is registered with ({} : any method).
MethodSets == {{}, {"GET"}}

\* A path is a sequence of segments.  Raw segments may be percent-encoded.
RawSegments == {"a", "%62", "%FF"}
RawPaths == {<<s>> : s \in RawSegments}

\* A path specification: literal segments and named placeholders.
ParamSegments == {":id"}
PathSpecs == {<<"a">>, <<":id">>}

DecodeFailure == <<"invalid utf-8">>

NoHandler == [kind |-> "none", idx |-> -1]
NoErr == [ctx |-> <<>>, cause |-> NoHandler]
NoReq == [method |-> "-", path |-> <<>>, via |-> <<>>]
NoResp == [from |-> NoHandler, err |-> NoErr, via |-> <<>>]

PathDecodeCtx == "Couldn't percent decode request path"
PreCtx == "One of the pre middlewares couldn't process the request"
RouteCtx == "One of the routes couldn't process the request"
PostCtx == "One of the post middlewares couldn't process the response"
NoHandlersMsg == "No handlers added to handle non-existent routes. Tips: Please add an '.any' route at the bottom to handle any routes."
RegexSetPanic == "The 'regex_set' field in Router is not initialized"
MountedPanic == "A router can not be used after mounting into another router"

Requests == [method : Methods, path : RawPaths, via : {<<>>}]

----------------------------------------------------------------------------
\* crate::Error and the extension methods that build it

\* ErrorExt::wrap: a handler's own error E as a crate::Error.
wrap(cause) == [ctx |-> <<>>, cause |-> cause]

\* ErrorExt::context: the error with a context message put in front.
context(msg, err) == [err EXCEPT !.ctx = <<msg>> \o @]

\* crate::Error::new: an error that is only a message.
ErrorNew(msg) == [ctx |-> <<msg>>, cause |-> NoHandler]

----------------------------------------------------------------------------
\* Collaborators of the router that the pipeline calls

\* helpers::percent_decode_request_path, segment by segment.
DecodeSegment(s) ==
    CASE s = "%62" -> "b"
      [] OTHER -> s

percent_decode_request_path(path) ==
    IF \E i \in 1..Len(path) : path[i] = "%FF"
    THEN DecodeFailure
    ELSE [i \in 1..Len(path) |-> DecodeSegment(path[i])]

\* The exact-match regex of a path specification: the whole path, segment by
\* segment, a placeholder taking any one segment.
IsMatch(regex, target_path) ==
    /\ Len(regex) = Len(target_path)
    /\ \A i \in 1..Len(regex) :
          regex[i] \in ParamSegments \/ regex[i] = target_path[i]

\* The name a placeholder segment captures under.
ParamName(segment) == CASE segment = ":id" -> "id"

\* Route::process: the path parameters the regex captures from the target
\* path, as (name, value) pairs.
Captures(regex, target_path) ==
    {<<ParamName(regex[i]), target_path[i]>> :
        i \in {j \in 1..Len(regex) : regex[j] \in ParamSegments}}

\* Route::is_match_method
is_match_method(route, method) ==
    route.methods = {} \/ method \in route.methods

----------------------------------------------------------------------------
VARIABLES
    pre_middlewares,                \* Router.pre_middlewares
    routes,                         \* Router.routes
    post_middlewares,               \* Router.post_middlewares
    err_handler,                    \* Router.err_handler is Some
    regex_set,                      \* Router.regex_set: None or Some(RegexSet)
    pc,                             \* where the current process call stands
    req,                            \* the argument of the current call
    target_path,                    \* process: target_path
    matched_pre_middleware_idxs,    \* process: the three matched lists
    matched_route_idxs,
    matched_post_middleware_idxs,
    cur,                            \* position of the running for loop
    transformed_req,                \* process: transformed_req
    resp,                           \* process: resp (NoResp is None)
    transformed_res,                \* process: transformed_res
    pending_err,                    \* the error handed to err_handler
    running,                        \* the handler whose future is awaited
    result,                         \* what the call returned
    trace,                          \* handler invocations of the current call
    outcomes,                       \* how each awaited handler future resolved
    returned,                       \* what each awaited handler future resolved to
    matcher_queries,                \* RegexSet::matches calls of the current call
    builds,                         \* init_regex_set calls so far
    seen,                           \* per path, the matched lists of its first call
    child,                          \* the router handed to scope, before and after
    declared,                       \* the builder calls so far, in order
    params,                         \* a PathParams value
    stored                          \* the (name, value) pairs stored in params, in order

router == <<pre_middlewares, routes, post_middlewares, err_handler, regex_set>>
locals == <<req, target_path, matched_pre_middleware_idxs, matched_route_idxs,
            matched_post_middleware_idxs, cur, transformed_req, resp,
            transformed_res, pending_err, running>>
history == <<seen, declared, stored>>
vars == <<router, locals, pc, result, trace, outcomes, returned,
          matcher_queries, builds, child, params, history>>

\* Option<RegexSet>
NoRegexSet == [some |-> FALSE, regexes |-> <<>>]
SomeRegexSet(regexes) == [some |-> TRUE, regexes |-> regexes]

NoResult == [kind |-> "none", resp |-> NoResp, err |-> NoErr, msg |-> ""]
Ok(r) == [kind |-> "ok", resp |-> r, err |-> NoErr, msg |-> ""]
Err(e) == [kind |-> "err", resp |-> NoResp, err |-> e, msg |-> ""]
Panic(m) == [kind |-> "panic", resp |-> NoResp, err |-> NoErr, msg |-> m]

\* What a handler's future resolved to: Ok(request), Ok(response) or Err.
Returned(rq, er, rs) == [req |-> rq, err |-> er, resp |-> rs]

Event(kind, idx, rq, er, rs) ==
    [kind |-> kind, idx |-> idx, req |-> rq, err |-> er, resp |-> rs,
     target |-> IF kind = "route" THEN target_path ELSE <<>>,
     captures |-> IF kind = "route"
                  THEN Captures(routes[idx + 1].regex, target_path)
                  ELSE {}]

----------------------------------------------------------------------------
\* What user handlers may do.  A handler is arbitrary code: it ends in Ok or
\* in Err, an Ok request may carry another method or path, and every value a
\* handler returns is stamped with the handler that made it.

RewritePaths == {<<"%62">>}

PreHandlerOk(idx, rq) ==
    {[method |-> m, path |-> p, via |-> Append(rq.via, idx)] :
        m \in Methods, p \in {rq.path} \cup RewritePaths}

HandlerCause(kind, idx) == [kind |-> kind, idx |-> idx]

RouteHandlerOk(idx) == [from |-> HandlerCause("route", idx), err |-> NoErr, via |-> <<>>]

ErrHandlerResp(err) == [from |-> HandlerCause("err", -1), err |-> err, via |-> <<>>]

PostHandlerOk(idx, rs) == [rs EXCEPT !.via = Append(@, idx)]

----------------------------------------------------------------------------
\* Values of the variables that only the other specifications move.

\* PathParams::new: an empty map.
PathParamsNew == {}

\* No router is waiting to be mounted.
NoChild == [pre |-> <<>>, routes |-> <<>>, post |-> <<>>]

DecodedPaths == {percent_decode_request_path(p) : p \in RawPaths \cup RewritePaths} \ {DecodeFailure}
\* What is remembered of the first match_regex_set call made with a path: the
\* three lists it returned, and its rank among the paths first seen.
Unseen == [pre |-> <<>>, route |-> <<>>, post |-> <<>>, rank |-> 0]
NothingSeen == [p \in DecodedPaths |-> Unseen]

----------------------------------------------------------------------------
\* Router::new

SeqsOfLen(S, n) == [1..n -> S]

Init ==
    /\ \E np \in 0..MaxEntries :
       \E nr \in 0..(MaxEntries - np) :
       \E no \in 0..(MaxEntries - np - nr) :
       \E taken \in BOOLEAN :
       \E ps \in SeqsOfLen(PathSpecs, np) :
       \E rs \in SeqsOfLen(PathSpecs \X MethodSets, nr) :
       \E os \in SeqsOfLen(PathSpecs, no) :
          /\ pre_middlewares =
                [i \in 1..np |-> [regex |-> ps[i], handler |-> ~taken]]
          /\ routes =
                [i \in 1..nr |-> [regex |-> rs[i][1], methods |-> rs[i][2],
                                  handler |-> ~taken]]
          /\ post_middlewares =
                [i \in 1..no |-> [regex |-> os[i], handler |-> ~taken]]
    /\ err_handler \in BOOLEAN
    /\ regex_set = NoRegexSet
    /\ pc = "idle"
    /\ req = NoReq
    /\ target_path = <<>>
    /\ matched_pre_middleware_idxs = <<>>
    /\ matched_route_idxs = <<>>
    /\ matched_post_middleware_idxs = <<>>
    /\ cur = 0
    /\ transformed_req = NoReq
    /\ resp = NoResp
    /\ transformed_res = NoResp
    /\ pending_err = NoErr
    /\ running = NoHandler
    /\ result = NoResult
    /\ trace = <<>>
    /\ outcomes = <<>>
    /\ returned = <<>>
    /\ matcher_queries = 0
    /\ builds = 0
    /\ seen = NothingSeen
    /\ child = NoChild
    /\ declared = <<>>
    /\ params = PathParamsNew
    /\ stored = <<>>

----------------------------------------------------------------------------
\* Router::init_regex_set

RegexIter ==
    [i \in 1..Len(pre_middlewares) |-> pre_middlewares[i].regex]
    \o [i \in 1..Len(routes) |-> routes[i].regex]
    \o [i \in 1..Len(post_middlewares) |-> post_middlewares[i].regex]

init_regex_set ==
    /\ pc = "idle"
    /\ builds < MaxBuilds
    /\ regex_set' = SomeRegexSet(RegexIter)
    /\ builds' = builds + 1
    /\ UNCHANGED <<pre_middlewares, routes, post_middlewares, err_handler,
                   locals, pc, result, trace, outcomes, returned, matcher_queries>>

----------------------------------------------------------------------------
\* Router::match_regex_set

\* RegexSet::matches: the indices of the patterns matching the path.
SetMatches(set, path) == {i \in 0..(Len(set) - 1) : IsMatch(set[i + 1], path)}

\* SetMatches::into_iter yields the matched indices in ascending order.
RECURSIVE IntoIter(_)
IntoIter(S) ==
    IF S = {} THEN <<>>
    ELSE LET m == CHOOSE x \in S : \A y \in S : x <= y
         IN <<m>> \o IntoIter(S \ {m})

NoMatched == [pre |-> <<>>, route |-> <<>>, post |-> <<>>]

\* Mutant: the route range tested with > instead of >=.
PushMatchedStrict(acc, idx) ==
    LET pre_middlewares_len == Len(pre_middlewares)
        routes_len == Len(routes)
        post_middlewares_len == Len(post_middlewares)
    IN IF idx < pre_middlewares_len
       THEN [acc EXCEPT !.pre = Append(@, idx)]
       ELSE IF idx > pre_middlewares_len /\ idx < (pre_middlewares_len + routes_len)
       THEN [acc EXCEPT !.route = Append(@, idx - pre_middlewares_len)]
       ELSE IF /\ idx > (pre_middlewares_len + routes_len)
               /\ idx < (pre_middlewares_len + routes_len + post_middlewares_len)
       THEN [acc EXCEPT !.post = Append(@, idx - pre_middlewares_len - routes_len)]
       ELSE acc

\* The body of the for loop over the matches.
PushMatched(acc, idx) ==
    LET pre_middlewares_len == Len(pre_middlewares)
        routes_len == Len(routes)
        post_middlewares_len == Len(post_middlewares)
    IN IF idx < pre_middlewares_len
       THEN [acc EXCEPT !.pre = Append(@, idx)]
       ELSE IF idx >= pre_middlewares_len /\ idx < (pre_middlewares_len + routes_len)
       THEN [acc EXCEPT !.route = Append(@, idx - pre_middlewares_len)]
       ELSE IF /\ idx >= (pre_middlewares_len + routes_len)
               /\ idx < (pre_middlewares_len + routes_len + post_middlewares_len)
       THEN [acc EXCEPT !.post = Append(@, idx - pre_middlewares_len - routes_len)]
       ELSE acc

RECURSIVE MatchLoop(_, _)
MatchLoop(matches, acc) ==
    IF matches = <<>> THEN acc
    ELSE MatchLoop(Tail(matches), PushMatched(acc, Head(matches)))

match_regex_set(path) ==
    MatchLoop(IntoIter(SetMatches(regex_set.regexes, path)), NoMatched)

----------------------------------------------------------------------------
\* Router::process, one action per stretch of code between two await points

Finish(res) ==
    /\ pc' = "done"
    /\ result' = res
    /\ running' = NoHandler

\* Mutant: a path that does not decode is matched as it came.
process_decode_lossy(r) ==
    LET matched == match_regex_set(r.path)
    IN /\ target_path' = r.path
       /\ matcher_queries' = 1
       /\ matched_pre_middleware_idxs' = matched.pre
       /\ matched_route_idxs' = matched.route
       /\ matched_post_middleware_idxs' = matched.post
       /\ transformed_req' = r
       /\ cur' = 1
       /\ pc' = "pre"
       /\ UNCHANGED <<result, running>>

\* Line 101: the ? on a path that does not decode.
process_decode_failed(r) ==
    /\ Finish(Err(context(PathDecodeCtx, wrap(HandlerCause("decode", -1)))))
    /\ matcher_queries' = 0
    /\ UNCHANGED <<target_path, matched_pre_middleware_idxs, matched_route_idxs,
                   matched_post_middleware_idxs, cur, transformed_req>>

\* Mutant: a router whose regex_set is None builds it and serves the request.
process_unbuilt_lazy(r, decoded) ==
    LET matched == MatchLoop(IntoIter(SetMatches(RegexIter, decoded)), NoMatched)
    IN /\ regex_set' = SomeRegexSet(RegexIter)
       /\ builds' = builds
       /\ target_path' = decoded
       /\ matcher_queries' = 1
       /\ matched_pre_middleware_idxs' = matched.pre
       /\ matched_route_idxs' = matched.route
       /\ matched_post_middleware_idxs' = matched.post
       /\ transformed_req' = r
       /\ cur' = 1
       /\ pc' = "pre"
       /\ UNCHANGED <<result, running>>

\* Lines 160-163: match_regex_set's expect on a router whose regex_set is None.
process_unbuilt(r, decoded) ==
    /\ Finish(Panic(RegexSetPanic))
    /\ target_path' = decoded
    /\ matcher_queries' = 0
    /\ UNCHANGED <<regex_set, builds>>
    /\ UNCHANGED <<matched_pre_middleware_idxs, matched_route_idxs,
                   matched_post_middleware_idxs, cur, transformed_req>>

\* Mutant: a call whose path matches no route gives up before the pre loop.
process_matched_routes_first(r, decoded) ==
    LET matched == match_regex_set(decoded)
    IN /\ target_path' = decoded
       /\ matcher_queries' = 1
       /\ matched_pre_middleware_idxs' = matched.pre
       /\ matched_route_idxs' = matched.route
       /\ matched_post_middleware_idxs' = matched.post
       /\ transformed_req' = r
       /\ cur' = 1
       /\ IF matched.route = <<>>
          THEN Finish(Err(ErrorNew(NoHandlersMsg)))
          ELSE pc' = "pre" /\ UNCHANGED <<result, running>>

\* Lines 103-106: the matched lists and transformed_req.
process_matched(r, decoded) ==
    LET matched == match_regex_set(decoded)
    IN /\ target_path' = decoded
       /\ matcher_queries' = 1
       /\ matched_pre_middleware_idxs' = matched.pre
       /\ matched_route_idxs' = matched.route
       /\ matched_post_middleware_idxs' = matched.post
       /\ transformed_req' = r
       /\ cur' = 1
       /\ pc' = "pre"
       /\ UNCHANGED <<result, running>>

process(r) ==
    /\ pc = "idle"
    /\ req' = r
    /\ trace' = <<>>
    /\ outcomes' = <<>>
    /\ returned' = <<>>
    /\ LET decoded == percent_decode_request_path(r.path)
       IN IF decoded = DecodeFailure
          THEN process_decode_failed(r) /\ UNCHANGED <<regex_set, builds>>
          ELSE IF ~regex_set.some
          THEN process_unbuilt(r, decoded)
          ELSE process_matched(r, decoded) /\ UNCHANGED <<regex_set, builds>>
    /\ UNCHANGED <<pre_middlewares, routes, post_middlewares, err_handler,
                   resp, transformed_res, pending_err>>

\* PreMiddleware::process up to the call of the handler: the handler slot.
PreHandlerSome(pre_middleware) == pre_middleware.handler

\* Route::process and PostMiddleware::process keep their handler the same way.
RouteHandlerSome(route) == route.handler
PostHandlerSome(post_middleware) == post_middleware.handler

Invoke(kind, idx, rq, er, rs) ==
    /\ trace' = Append(trace, Event(kind, idx, rq, er, rs))
    /\ running' = HandlerCause(kind, idx)
    /\ UNCHANGED result

\* Mutant: the pre handlers are started one after the other without awaiting
\* the future of the one before.
PreNextDetached ==
    /\ pc = "pre"
    /\ IF cur > Len(matched_pre_middleware_idxs)
       THEN /\ pc' = "route"
            /\ cur' = 1
            /\ UNCHANGED <<result, running, trace>>
       ELSE LET idx == matched_pre_middleware_idxs[cur]
            IN /\ Invoke("pre", idx, transformed_req, NoErr, NoResp)
               /\ pc' = "pre"
               /\ cur' = cur + 1
    /\ UNCHANGED <<router, req, target_path, matched_pre_middleware_idxs,
                   matched_route_idxs, matched_post_middleware_idxs,
                   transformed_req, resp, transformed_res, pending_err,
                   outcomes, returned, matcher_queries, builds>>

\* Lines 107-111: the head of the pre loop, up to the handler's future.
PreNext ==
    /\ pc = "pre"
    /\ IF cur > Len(matched_pre_middleware_idxs)
       THEN /\ pc' = "route"
            /\ cur' = 1
            /\ UNCHANGED <<result, running, trace>>
       ELSE LET idx == matched_pre_middleware_idxs[cur]
                pre_middleware == pre_middlewares[idx + 1]
            IN IF PreHandlerSome(pre_middleware)
               THEN /\ Invoke("pre", idx, transformed_req, NoErr, NoResp)
                    /\ pc' = "pre_await"
                    /\ cur' = cur
               ELSE /\ Finish(Panic(MountedPanic))
                    /\ UNCHANGED <<cur, trace>>
    /\ UNCHANGED <<router, req, target_path, matched_pre_middleware_idxs,
                   matched_route_idxs, matched_post_middleware_idxs,
                   transformed_req, resp, transformed_res, pending_err,
                   outcomes, returned, matcher_queries, builds>>

\* Mutant: the pre middleware's own error is dropped, only the context kept.
PreFailedNoCause(cause) == Err(ErrorNew(PreCtx))

\* Line 113 and pre.rs line 58: a pre middleware's Err, as process returns it.
PreFailed(cause) == Err(context(PreCtx, wrap(cause)))

\* Lines 110-114: the handler's future resolves.
PreAwait ==
    /\ pc = "pre_await"
    /\ LET idx == matched_pre_middleware_idxs[cur]
       IN \/ \E out \in PreHandlerOk(idx, transformed_req) :
                /\ transformed_req' = out
                /\ cur' = cur + 1
                /\ pc' = "pre"
                /\ running' = NoHandler
                /\ outcomes' = Append(outcomes, "ok")
                /\ returned' = Append(returned, Returned(out, NoErr, NoResp))
                /\ UNCHANGED result
          \/ /\ Finish(PreFailed(HandlerCause("pre", idx)))
             /\ outcomes' = Append(outcomes, "err")
             /\ returned' = Append(returned,
                    Returned(NoReq, wrap(HandlerCause("pre", idx)), NoResp))
             /\ UNCHANGED <<transformed_req, cur>>
    /\ UNCHANGED <<router, req, target_path, matched_pre_middleware_idxs,
                   matched_route_idxs, matched_post_middleware_idxs,
                   resp, transformed_res, pending_err, trace,
                   matcher_queries, builds>>

\* Mutant: the first matched route is taken whatever its methods.
RouteAcceptsAny(route, rq) == TRUE

\* Mutant: the method of the request as it came in decides.
RouteAcceptsOriginal(route, rq) == is_match_method(route, req.method)

\* Line 120: whether the scan stops at this matched route.
RouteAccepts(route, rq) == is_match_method(route, rq.method)

\* Mutant: the "no handlers" error goes to the error handler, when there is one.
RouteLoopEndHandled ==
    IF resp = NoResp
    THEN IF err_handler
         THEN /\ pending_err' = ErrorNew(NoHandlersMsg)
              /\ Invoke("err", -1, NoReq, ErrorNew(NoHandlersMsg), NoResp)
              /\ pc' = "err_await"
              /\ UNCHANGED cur
         ELSE /\ Finish(Err(ErrorNew(NoHandlersMsg)))
              /\ UNCHANGED <<cur, trace, pending_err>>
    ELSE /\ pc' = "post"
         /\ cur' = 1
         /\ UNCHANGED <<result, running, trace, pending_err>>

\* Lines 142-144: the route loop ended.
RouteLoopEnd ==
    IF resp = NoResp
    THEN /\ Finish(Err(ErrorNew(NoHandlersMsg)))
         /\ UNCHANGED <<cur, trace, pending_err>>
    ELSE /\ pc' = "post"
         /\ cur' = 1
         /\ UNCHANGED <<result, running, trace, pending_err>>

\* Mutant: the selected route is moved out of the list to be called.
RemoveRoute(idx) ==
    [i \in 1..(Len(routes) - 1) |-> IF i < idx + 1 THEN routes[i] ELSE routes[i + 1]]

\* Line 118: &mut self.routes[idx] borrows the route, the list stays as it is.
BorrowRoute(idx) == routes

\* Lines 117-122: the route loop, up to the selected handler's future.
RouteNext ==
    /\ pc = "route"
    /\ IF cur > Len(matched_route_idxs)
       THEN RouteLoopEnd /\ UNCHANGED routes
       ELSE /\ LET idx == matched_route_idxs[cur]
                   route == routes[idx + 1]
               IN IF RouteAccepts(route, transformed_req)
                  THEN IF RouteHandlerSome(route)
                       THEN /\ Invoke("route", idx, transformed_req, NoErr, NoResp)
                            /\ routes' = BorrowRoute(idx)
                            /\ pc' = "route_await"
                            /\ cur' = cur
                       ELSE /\ Finish(Panic(MountedPanic))
                            /\ UNCHANGED <<routes, cur, trace>>
                  ELSE /\ cur' = cur + 1
                       /\ pc' = "route"
                       /\ UNCHANGED <<routes, result, running, trace>>
            /\ UNCHANGED pending_err
    /\ UNCHANGED <<pre_middlewares, post_middlewares, err_handler, regex_set,
                   req, target_path, matched_pre_middleware_idxs,
                   matched_route_idxs, matched_post_middleware_idxs,
                   transformed_req, resp, transformed_res,
                   outcomes, returned, matcher_queries, builds>>

\* Line 124: a route handler's Err, with its context.
RouteFailed(cause) == context(RouteCtx, wrap(cause))

\* Mutant: the response is returned from inside the loop, before the post loop.
RouteBreakReturns(route_resp) ==
    /\ resp' = route_resp
    /\ Finish(Ok(route_resp))
    /\ cur' = cur

\* Mutant: the break is missing and the scan goes on to the next matched route.
RouteBreakContinues(route_resp) ==
    /\ resp' = route_resp
    /\ pc' = "route"
    /\ cur' = cur + 1
    /\ running' = NoHandler
    /\ UNCHANGED result

\* Lines 137-138: resp = Some(route_resp); break.
RouteBreak(route_resp) ==
    /\ resp' = route_resp
    /\ pc' = "post"
    /\ cur' = 1
    /\ running' = NoHandler
    /\ UNCHANGED result

\* Mutant: the error is returned whether or not an error handler is set.
RouteErrArmPropagates(err) ==
    /\ Finish(Err(err))
    /\ UNCHANGED <<resp, cur, pending_err, trace, err_handler>>

\* Mutant: the error handler is moved out of the router to be called.
RouteErrArmTakes(err) ==
    IF err_handler
    THEN /\ pending_err' = err
         /\ Invoke("err", -1, NoReq, err, NoResp)
         /\ pc' = "err_await"
         /\ err_handler' = FALSE
         /\ UNCHANGED <<resp, cur>>
    ELSE /\ Finish(Err(err))
         /\ UNCHANGED <<resp, cur, pending_err, trace, err_handler>>

\* Lines 128-134: the Err arm of the match on the route's result.  The
\* handler is borrowed (ref mut), the router keeps it.
RouteErrArm(err) ==
    IF err_handler
    THEN /\ pending_err' = err
         /\ Invoke("err", -1, NoReq, err, NoResp)
         /\ pc' = "err_await"
         /\ UNCHANGED <<resp, cur, err_handler>>
    ELSE /\ Finish(Err(err))
         /\ UNCHANGED <<resp, cur, pending_err, trace, err_handler>>

\* Lines 121-138: the route handler's future resolves.
RouteAwait ==
    /\ pc = "route_await"
    /\ LET idx == matched_route_idxs[cur]
       IN \/ /\ RouteBreak(RouteHandlerOk(idx))
             /\ outcomes' = Append(outcomes, "ok")
             /\ returned' = Append(returned,
                    Returned(NoReq, NoErr, RouteHandlerOk(idx)))
             /\ UNCHANGED <<pending_err, trace, err_handler>>
          \/ /\ RouteErrArm(RouteFailed(HandlerCause("route", idx)))
             /\ outcomes' = Append(outcomes, "err")
             /\ returned' = Append(returned,
                    Returned(NoReq, wrap(HandlerCause("route", idx)), NoResp))
    /\ UNCHANGED <<pre_middlewares, routes, post_middlewares, regex_set,
                   req, target_path, matched_pre_middleware_idxs,
                   matched_route_idxs, matched_post_middleware_idxs,
                   transformed_req, transformed_res, matcher_queries, builds>>

\* Mutant: the error handler's response is returned at once, past the post loop.
ErrAwaitReturns ==
    /\ pc = "err_await"
    /\ resp' = ErrHandlerResp(pending_err)
    /\ Finish(Ok(ErrHandlerResp(pending_err)))
    /\ cur' = cur
    /\ outcomes' = Append(outcomes, "ok")
    /\ returned' = Append(returned,
           Returned(NoReq, NoErr, ErrHandlerResp(pending_err)))
    /\ UNCHANGED <<router, req, target_path, matched_pre_middleware_idxs,
                   matched_route_idxs, matched_post_middleware_idxs,
                   transformed_req, transformed_res, pending_err, trace,
                   matcher_queries, builds>>

\* Lines 130, 137-138: the error handler's future resolves to a response.
ErrAwait ==
    /\ pc = "err_await"
    /\ RouteBreak(ErrHandlerResp(pending_err))
    /\ outcomes' = Append(outcomes, "ok")
    /\ returned' = Append(returned,
           Returned(NoReq, NoErr, ErrHandlerResp(pending_err)))
    /\ UNCHANGED <<router, req, target_path, matched_pre_middleware_idxs,
                   matched_route_idxs, matched_post_middleware_idxs,
                   transformed_req, transformed_res, pending_err, trace,
                   matcher_queries, builds>>

\* Mutant: every post middleware is handed the route's response.
PostInputUnthreaded == resp

\* Lines 146-151 and 156: the post loop, up to the handler's future.  The
\* first pass takes resp.unwrap() as transformed_res.
PostInput == IF cur = 1 THEN resp ELSE transformed_res

PostNext ==
    /\ pc = "post"
    /\ transformed_res' = PostInput
    /\ IF cur > Len(matched_post_middleware_idxs)
       THEN /\ Finish(Ok(PostInput))
            /\ UNCHANGED <<cur, trace>>
       ELSE LET idx == matched_post_middleware_idxs[cur]
                post_middleware == post_middlewares[idx + 1]
            IN IF PostHandlerSome(post_middleware)
               THEN /\ Invoke("post", idx, NoReq, NoErr, PostInput)
                    /\ pc' = "post_await"
                    /\ cur' = cur
               ELSE /\ Finish(Panic(MountedPanic))
                    /\ UNCHANGED <<cur, trace>>
    /\ UNCHANGED <<router, req, target_path, matched_pre_middleware_idxs,
                   matched_route_idxs, matched_post_middleware_idxs,
                   transformed_req, resp, pending_err, outcomes, returned,
                   matcher_queries, builds>>

\* Mutant: a post middleware's error is handed to the route context instead.
PostFailedAsRoute(cause) == Err(context(RouteCtx, wrap(cause)))

\* Line 153: a post middleware's Err, as process returns it.
PostFailed(cause) == Err(context(PostCtx, wrap(cause)))

\* Lines 150-154: the handler's future resolves.
PostAwait ==
    /\ pc = "post_await"
    /\ LET idx == matched_post_middleware_idxs[cur]
       IN \/ /\ transformed_res' = PostHandlerOk(idx, transformed_res)
             /\ cur' = cur + 1
             /\ pc' = "post"
             /\ running' = NoHandler
             /\ outcomes' = Append(outcomes, "ok")
             /\ returned' = Append(returned,
                    Returned(NoReq, NoErr, PostHandlerOk(idx, transformed_res)))
             /\ UNCHANGED result
          \/ /\ Finish(PostFailed(HandlerCause("post", idx)))
             /\ outcomes' = Append(outcomes, "err")
             /\ returned' = Append(returned,
                    Returned(NoReq, wrap(HandlerCause("post", idx)), NoResp))
             /\ UNCHANGED <<transformed_res, cur>>
    /\ UNCHANGED <<router, req, target_path, matched_pre_middleware_idxs,
                   matched_route_idxs, matched_post_middleware_idxs,
                   transformed_req, resp, pending_err, trace,
                   matcher_queries, builds>>

\* The call is over: its locals are dropped and the router can be called again.
Return ==
    /\ pc = "done"
    /\ pc' = "idle"
    /\ req' = NoReq
    /\ target_path' = <<>>
    /\ matched_pre_middleware_idxs' = <<>>
    /\ matched_route_idxs' = <<>>
    /\ matched_post_middleware_idxs' = <<>>
    /\ cur' = 0
    /\ transformed_req' = NoReq
    /\ resp' = NoResp
    /\ transformed_res' = NoResp
    /\ pending_err' = NoErr
    /\ running' = NoHandler
    /\ result' = NoResult
    /\ trace' = <<>>
    /\ outcomes' = <<>>
    /\ returned' = <<>>
    /\ matcher_queries' = 0
    /\ UNCHANGED <<router, builds>>

\* A router in service: nothing is registered or mounted any more, and the
\* PathParams value of the other specifications is left alone.
InService == UNCHANGED <<seen, child, declared, params, stored>>

Next ==
    \/ init_regex_set /\ InService
    \/ \E r \in Requests : process(r) /\ InService
    \/ PreNext /\ InService
    \/ PreAwait /\ InService
    \/ RouteNext /\ InService
    \/ RouteAwait /\ InService
    \/ ErrAwait /\ InService
    \/ PostNext /\ InService
    \/ PostAwait /\ InService
    \/ Return /\ InService

Spec == Init /\ [][Next]_vars

\* The same router, with the result of the first match_regex_set call of
\* each path kept across the calls.
SeenRecord ==
    /\ seen' = IF matcher_queries' = 1 /\ seen[target_path'].rank = 0
               THEN [seen EXCEPT ![target_path'] =
                        [pre |-> matched_pre_middleware_idxs',
                         route |-> matched_route_idxs',
                         post |-> matched_post_middleware_idxs',
                         rank |-> 1 + Cardinality({p \in DecodedPaths : seen[p].rank > 0})]]
               ELSE seen
    /\ UNCHANGED <<child, declared, params, stored>>

NextSeen ==
    \/ init_regex_set /\ InService
    \/ \E r \in Requests : process(r) /\ SeenRecord
    \/ PreNext /\ InService
    \/ PreAwait /\ InService
    \/ RouteNext /\ InService
    \/ RouteAwait /\ InService
    \/ ErrAwait /\ InService
    \/ PostNext /\ InService
    \/ PostAwait /\ InService
    \/ Return /\ InService

SpecSeen == Init /\ [][NextSeen]_vars

----------------------------------------------------------------------------
\* Registration and mounting: a router is put together entry by entry, another
\* router may be mounted into it under a prefix, and it is then built and
\* served as above.

MountPrefixes == {<<"api">>}
ChildSpecs == {<<"items", ":id">>}
OwnSpecs == {<<"items", ":id">>, <<"api", "items", ":id">>}
MountRequests ==
    [method : {"GET"}, path : {<<"api", "items", "42">>, <<"items", "42">>},
     via : {<<>>}]

\* PreMiddleware::new_with_boxed_handler and its likes: an entry that owns
\* its handler.
PreMiddlewareNew(path) == [regex |-> path, handler |-> TRUE]
RouteNew(path, methods) == [regex |-> path, methods |-> methods, handler |-> TRUE]
PostMiddlewareNew(path) == [regex |-> path, handler |-> TRUE]

\* The routers that can be mounted: at least one entry, every handler owned.
Children ==
    UNION {
        {[pre |-> [i \in 1..np |-> PreMiddlewareNew(ps[i])],
          routes |-> [i \in 1..nr |-> RouteNew(rs[i][1], rs[i][2])],
          post |-> [i \in 1..no |-> PostMiddlewareNew(os[i])]] :
            ps \in SeqsOfLen(ChildSpecs, np),
            rs \in SeqsOfLen(ChildSpecs \X MethodSets, nr),
            os \in SeqsOfLen(ChildSpecs, no)} :
        np \in 0..MaxEntries, nr \in 0..MaxEntries, no \in 0..MaxEntries}

Size(r) == Len(r.pre) + Len(r.routes) + Len(r.post)
EntryCount == Len(pre_middlewares) + Len(routes) + Len(post_middlewares)

InitMount ==
    /\ pre_middlewares = <<>>
    /\ routes = <<>>
    /\ post_middlewares = <<>>
    /\ err_handler = TRUE
    /\ regex_set = NoRegexSet
    /\ child \in {c \in Children : Size(c) \in 1..MaxEntries}
    /\ declared = <<>>
    /\ pc = "idle"
    /\ req = NoReq
    /\ target_path = <<>>
    /\ matched_pre_middleware_idxs = <<>>
    /\ matched_route_idxs = <<>>
    /\ matched_post_middleware_idxs = <<>>
    /\ cur = 0
    /\ transformed_req = NoReq
    /\ resp = NoResp
    /\ transformed_res = NoResp
    /\ pending_err = NoErr
    /\ running = NoHandler
    /\ result = NoResult
    /\ trace = <<>>
    /\ outcomes = <<>>
    /\ returned = <<>>
    /\ matcher_queries = 0
    /\ builds = 0
    /\ seen = NothingSeen
    /\ params = PathParamsNew
    /\ stored = <<>>

Declaration(op, path, methods, mounted) ==
    [op |-> op, regex |-> path, methods |-> methods, child |-> mounted]

\* Registration is over once the matcher is built, and a call is not running.
Building == pc = "idle" /\ ~regex_set.some /\ builds = 0

BuildFrame ==
    UNCHANGED <<err_handler, regex_set, locals, pc, result, trace, outcomes,
                returned, matcher_queries, builds, seen, params, stored>>

\* Entries still to come count against the bound: the child's, until mounted.
Pending == IF \E i \in 1..Len(declared) : declared[i].op = "scope"
           THEN 0 ELSE Size(child)

RegisterPre(path) ==
    /\ Building
    /\ EntryCount + Pending < MaxEntries
    /\ pre_middlewares' = Append(pre_middlewares, PreMiddlewareNew(path))
    /\ declared' = Append(declared, Declaration("pre", path, {}, NoChild))
    /\ UNCHANGED <<routes, post_middlewares, child>>
    /\ BuildFrame

RegisterRoute(path, methods) ==
    /\ Building
    /\ EntryCount + Pending < MaxEntries
    /\ routes' = Append(routes, RouteNew(path, methods))
    /\ declared' = Append(declared, Declaration("routes", path, methods, NoChild))
    /\ UNCHANGED <<pre_middlewares, post_middlewares, child>>
    /\ BuildFrame

RegisterPost(path) ==
    /\ Building
    /\ EntryCount + Pending < MaxEntries
    /\ post_middlewares' = Append(post_middlewares, PostMiddlewareNew(path))
    /\ declared' = Append(declared, Declaration("post", path, {}, NoChild))
    /\ UNCHANGED <<pre_middlewares, routes, child>>
    /\ BuildFrame

\* Mutant: the child's path is kept as it is.
Unprefixed(prefix, path) == path

\* The path of a mounted entry: the prefix, then the child's own path.
Prefixed(prefix, path) == prefix \o path

\* Mutant: the handler stays in the child's slot as well.
Shared(entry) == entry

\* The handler is taken out of the child's slot (Option::take).
Taken(entry) == [entry EXCEPT !.handler = FALSE]

scope(prefix) ==
    /\ Building
    /\ Pending > 0
    /\ pre_middlewares' = pre_middlewares \o
          [i \in 1..Len(child.pre) |->
              PreMiddlewareNew(Prefixed(prefix, child.pre[i].regex))]
    /\ routes' = routes \o
          [i \in 1..Len(child.routes) |->
              RouteNew(Prefixed(prefix, child.routes[i].regex),
                       child.routes[i].methods)]
    /\ post_middlewares' = post_middlewares \o
          [i \in 1..Len(child.post) |->
              PostMiddlewareNew(Prefixed(prefix, child.post[i].regex))]
    /\ child' = [pre |-> [i \in 1..Len(child.pre) |-> Taken(child.pre[i])],
                 routes |-> [i \in 1..Len(child.routes) |-> Taken(child.routes[i])],
                 post |-> [i \in 1..Len(child.post) |-> Taken(child.post[i])]]
    /\ declared' = Append(declared, Declaration("scope", prefix, {}, child))
    /\ BuildFrame

NextMount ==
    \/ \E path \in OwnSpecs : RegisterPre(path)
    \/ \E path \in OwnSpecs : RegisterRoute(path, {})
    \/ \E path \in OwnSpecs : RegisterPost(path)
    \/ \E prefix \in MountPrefixes : scope(prefix)
    \/ init_regex_set /\ InService
    \/ \E r \in MountRequests : process(r) /\ InService
    \/ PreNext /\ InService
    \/ PreAwait /\ InService
    \/ RouteNext /\ InService
    \/ RouteAwait /\ InService
    \/ ErrAwait /\ InService
    \/ PostNext /\ InService
    \/ PostAwait /\ InService
    \/ Return /\ InService

SpecMount == InitMount /\ [][NextMount]_vars

----------------------------------------------------------------------------
\* PathParams: a HashMap<String, String> behind set, get, has, len and extend.
\* The map is the set of its (name, value) entries.

ParamNames == {"id", "name"}
ParamValues == {"1", "2"}

\* The PathParams values a caller can pass to extend, entry by entry in some
\* iteration order: no name twice.
OtherParams ==
    {q \in UNION {[1..n -> ParamNames \X ParamValues] : n \in 0..2} :
        \A i, j \in 1..Len(q) : i # j => q[i][1] # q[j][1]}

\* Mutant: an entry whose name is already there is kept (the first value wins).
insert_if_absent(map, key, val) ==
    IF \E e \in map : e[1] = key THEN map ELSE map \cup {<<key, val>>}

\* HashMap::insert: the entry of that name, if any, is replaced.
insert(map, key, val) == {e \in map : e[1] # key} \cup {<<key, val>>}

\* HashMap::get, as the set of the values found (none or one for a map).
get(name) == {e[2] : e \in {x \in params : x[1] = name}}

\* HashMap::contains_key
has(name) == \E e \in params : e[1] = name

\* HashMap::len: the number of entries.
len == Cardinality(params)

RECURSIVE extended(_, _)
extended(map, other) ==
    IF other = <<>>
    THEN map
    ELSE extended(insert(map, Head(other)[1], Head(other)[2]), Tail(other))

InitParams ==
    /\ pre_middlewares = <<>>
    /\ routes = <<>>
    /\ post_middlewares = <<>>
    /\ err_handler = FALSE
    /\ regex_set = NoRegexSet
    /\ child = NoChild
    /\ declared = <<>>
    /\ pc = "idle"
    /\ req = NoReq
    /\ target_path = <<>>
    /\ matched_pre_middleware_idxs = <<>>
    /\ matched_route_idxs = <<>>
    /\ matched_post_middleware_idxs = <<>>
    /\ cur = 0
    /\ transformed_req = NoReq
    /\ resp = NoResp
    /\ transformed_res = NoResp
    /\ pending_err = NoErr
    /\ running = NoHandler
    /\ result = NoResult
    /\ trace = <<>>
    /\ outcomes = <<>>
    /\ returned = <<>>
    /\ matcher_queries = 0
    /\ builds = 0
    /\ seen = NothingSeen
    /\ params = PathParamsNew
    /\ stored = <<>>

ParamsFrame ==
    UNCHANGED <<router, locals, pc, result, trace, outcomes, returned,
                matcher_queries, builds, seen, child, declared>>

\* PathParams::set
set(name, value) ==
    /\ Len(stored) < MaxStores
    /\ params' = insert(params, name, value)
    /\ stored' = Append(stored, <<name, value, "set">>)
    /\ ParamsFrame

\* PathParams::extend: every entry of the other value is set, one by one.
extend(other) ==
    /\ Len(stored) + Len(other) <= MaxStores
    /\ other # <<>>
    /\ params' = extended(params, other)
    /\ stored' = stored \o [i \in 1..Len(other) |-> <<other[i][1], other[i][2], "extend">>]
    /\ ParamsFrame

NextParams ==
    \/ \E name \in ParamNames, value \in ParamValues : set(name, value)
    \/ \E other \in OtherParams : extend(other)

SpecParams == InitParams /\ [][NextParams]_vars

----------------------------------------------------------------------------
\* Vocabulary of the properties.  The matching entries are taken from the
\* entry lists themselves, pattern by pattern, not from the RegexSet.

Decoded == percent_decode_request_path(req.path)
Decodes == req # NoReq /\ Decoded # DecodeFailure
Frozen == regex_set.some

HandlersOwned ==
    /\ \A i \in 1..Len(pre_middlewares) : pre_middlewares[i].handler
    /\ \A i \in 1..Len(routes) : routes[i].handler
    /\ \A i \in 1..Len(post_middlewares) : post_middlewares[i].handler

MatchingPre(path) ==
    {i \in 0..(Len(pre_middlewares) - 1) : IsMatch(pre_middlewares[i + 1].regex, path)}
MatchingRoutes(path) ==
    {i \in 0..(Len(routes) - 1) : IsMatch(routes[i + 1].regex, path)}
MatchingPost(path) ==
    {i \in 0..(Len(post_middlewares) - 1) : IsMatch(post_middlewares[i + 1].regex, path)}
AcceptingRoutes(path, method) ==
    {i \in MatchingRoutes(path) : is_match_method(routes[i + 1], method)}

Least(S) == CHOOSE x \in S : \A y \in S : x <= y
Ascending(S) ==
    CHOOSE q \in [1..Cardinality(S) -> S] :
        \A i, j \in 1..Cardinality(S) : i < j => q[i] < q[j]
StrictlyAscending(q) == \A i, j \in 1..Len(q) : i < j => q[i] < q[j]
IsPrefix(q, full) ==
    Len(q) <= Len(full) /\ \A i \in 1..Len(q) : q[i] = full[i]

Invoked(kind) == SelectSeq(trace, LAMBDA e : e.kind = kind)
Idxs(events) == [i \in 1..Len(events) |-> events[i].idx]
Kinds(events) == [i \in 1..Len(events) |-> events[i].kind]
\* The handler invocations that have resolved to Err.
FailedAt(kind) ==
    {p \in 1..Len(outcomes) : outcomes[p] = "err" /\ trace[p].kind = kind}
NoHandlerFailed == \A p \in 1..Len(outcomes) : outcomes[p] = "ok"

----------------------------------------------------------------------------
\* A finished call on a frozen router whose path matches exactly one pre
\* middleware, one route (accepting the method of the request the route scan
\* sees) and one post middleware, and in which no handler failed.
C1_Case ==
    /\ pc = "done" /\ Frozen /\ HandlersOwned /\ Decodes
    /\ Cardinality(MatchingPre(Decoded)) = 1
    /\ Cardinality(MatchingRoutes(Decoded)) = 1
    /\ Cardinality(MatchingPost(Decoded)) = 1
    /\ AcceptingRoutes(Decoded, transformed_req.method) # {}
    /\ NoHandlerFailed

\* C1: on a frozen router, a call whose path matches exactly one pre
\* middleware, one route (accepting the request's method) and one post
\* middleware, and in which no handler fails, invokes the pre handler, the
\* route handler and the post handler, once each and in that order, and
\* returns a response.
C1_PhaseOrder ==
    C1_Case =>
        /\ Kinds(trace) = <<"pre", "route", "post">>
        /\ {trace[1].idx} = MatchingPre(Decoded)
        /\ {trace[2].idx} = MatchingRoutes(Decoded)
        /\ {trace[3].idx} = MatchingPost(Decoded)
        /\ result.kind = "ok"

C1_Witness ==
    /\ C1_Case
    /\ Len(trace) = 3
    /\ result.kind = "ok"

\* C2: in one call at most one route handler is invoked, and it is the matched
\* route of least index that accepts the method of the request offered to it;
\* matched routes that do not accept the method are passed over, and no later
\* matched route is invoked, also when the selected handler fails.
C2_FirstMatchWins ==
    LET invoked == Invoked("route")
    IN /\ Len(invoked) <= 1
       /\ \A i \in 1..Len(invoked) :
            LET accepting == AcceptingRoutes(Decoded, invoked[i].req.method)
            IN accepting # {} /\ invoked[i].idx = Least(accepting)

C2_Witness ==
    /\ pc = "done"
    /\ FailedAt("route") # {}
    /\ ~err_handler
    /\ LET invoked == Invoked("route")
       IN /\ Len(invoked) = 1
          /\ \E skipped \in MatchingRoutes(Decoded) : skipped < invoked[1].idx
          /\ \E later \in AcceptingRoutes(Decoded, invoked[1].req.method) :
                later > invoked[1].idx

\* The call is over and got as far as the route scan.
RouteScanReached ==
    /\ pc = "done" /\ Decodes /\ Frozen
    /\ result.kind # "panic"
    /\ FailedAt("pre") = {}

NoMatchingRoute == Err(ErrorNew(NoHandlersMsg))

\* C3: a route whose methods do not contain the request's method is never
\* invoked; when the route scan is reached and no matched route accepts the
\* method, the call returns the NoMatchingRoute error, and that error is
\* returned in no other case (no handler failure yields it).
C3_MethodFilter ==
    /\ \A i \in 1..Len(trace) :
          trace[i].kind = "route" =>
              is_match_method(routes[trace[i].idx + 1], trace[i].req.method)
    /\ (RouteScanReached /\ AcceptingRoutes(Decoded, transformed_req.method) = {})
          => result = NoMatchingRoute
    /\ (pc = "done" /\ result = NoMatchingRoute)
          => /\ NoHandlerFailed
             /\ Invoked("route") = <<>>
             /\ AcceptingRoutes(Decoded, transformed_req.method) = {}

C3_Witness ==
    /\ pc = "done"
    /\ result = NoMatchingRoute
    /\ MatchingRoutes(Decoded) # {}
    /\ req.method = "POST"
    /\ Invoked("pre") # <<>>

\* C4: a matched pre middleware that fails ends the call: no later pre
\* middleware, no route, no error handler and no post middleware is invoked,
\* and the call returns an error that wraps the failing handler's cause.
C4_PreShortCircuit ==
    \A p \in FailedAt("pre") :
        /\ Len(trace) = p
        /\ \A q \in 1..p : trace[q].kind = "pre"
        /\ pc = "done"
        /\ result.kind = "err"
        /\ result.err.cause = HandlerCause("pre", trace[p].idx)
        /\ result.err.ctx = <<PreCtx>>

C4_Witness ==
    /\ pc = "done"
    /\ outcomes = <<"err">>
    /\ trace[1].kind = "pre"
    /\ Cardinality(MatchingPre(Decoded)) >= 2
    /\ AcceptingRoutes(Decoded, req.method) # {}
    /\ err_handler

\* What follows a failure of the selected route handler, the error at hand
\* being the handler's failure as it is (unchanged) or under the route context.
C5_Recovery(unchanged) ==
    \A p \in FailedAt("route") :
        LET cause == HandlerCause("route", trace[p].idx)
            err == IF unchanged THEN wrap(cause) ELSE context(RouteCtx, wrap(cause))
        IN IF err_handler
           THEN /\ Len(trace) > p
                /\ trace[p + 1].kind = "err"
                /\ trace[p + 1].err = err
                /\ Len(outcomes) > p => resp = ErrHandlerResp(err)
                /\ result.kind = "err" =>
                      result.err.cause # HandlerCause("route", trace[p].idx)
           ELSE /\ pc = "done"
                /\ result = Err(err)

\* C5 as amended: when the selected route handler fails, the error at hand
\* is the handler's failure under the route context.  With an error handler
\* set, the error handler is invoked with that error, the response the call
\* goes on with is the one the error handler made of it, and the call does not
\* return the route's failure; with none set, the call returns that error.
C5_ErrorHandlerRecovery == C5_Recovery(FALSE)

\* C5 as stated: the error handler is given, and without an error handler the
\* caller is returned, the route handler's failure unchanged.
C5_Original == C5_Recovery(TRUE)

C5_Witness ==
    /\ pc = "done"
    /\ FailedAt("route") # {}
    /\ ~err_handler
    /\ result.kind = "err"
    /\ result.err.ctx = <<RouteCtx>>
    /\ MatchingPost(Decoded) # {}

\* C6: after a route failure the error handler recovered, the matched post
\* middlewares are invoked in ascending order, the first on the error
\* handler's response, all of them when none fails; after a route failure with
\* no error handler set, no post middleware is invoked.
C6_PostAfterRecovery ==
    /\ (FailedAt("route") # {} /\ ~err_handler) => Invoked("post") = <<>>
    /\ \A p \in 1..Len(trace) :
          trace[p].kind = "err" =>
              LET after == SubSeq(trace, p + 1, Len(trace))
                  expected == Ascending(MatchingPost(Decoded))
              IN /\ \A i \in 1..Len(after) : after[i].kind = "post"
                 /\ IsPrefix(Idxs(after), expected)
                 /\ Len(after) >= 1 => after[1].resp = ErrHandlerResp(trace[p].err)
                 /\ (pc = "done" /\ FailedAt("post") = {})
                       => /\ Idxs(after) = expected
                          /\ result.kind = "ok"
                          /\ result.resp.from = HandlerCause("err", -1)
                          /\ result.resp.via = expected

C6_Witness ==
    /\ pc = "done"
    /\ FailedAt("route") # {}
    /\ Invoked("err") # <<>>
    /\ Len(Invoked("post")) >= 2
    /\ result.kind = "ok"

\* C7: the matched post middlewares are invoked in ascending order; when one
\* fails no later post middleware and no error handler is invoked, and the
\* call returns the post-middleware error wrapping its cause, although the
\* route handler had run.
C7_PostShortCircuit ==
    /\ IsPrefix(Idxs(Invoked("post")), Ascending(MatchingPost(Decoded)))
    /\ \A p \in FailedAt("post") :
          /\ Len(trace) = p
          /\ \E q \in 1..(p - 1) : trace[q].kind = "route"
          /\ pc = "done"
          /\ result.kind = "err"
          /\ result.err.cause = HandlerCause("post", trace[p].idx)
          /\ result.err.ctx = <<PostCtx>>

C7_Witness ==
    /\ pc = "done"
    /\ FailedAt("post") # {}
    /\ FailedAt("route") = {}
    /\ err_handler
    /\ Len(Invoked("post")) = 1
    /\ Cardinality(MatchingPost(Decoded)) >= 2

\* C8: match_regex_set splits the matched global indices by range: those below
\* the pre count go to the pre list as they are, those in the route range to
\* the route list less the pre count, the rest to the post list less both
\* counts; no matched index is lost or doubled, each list is strictly
\* ascending, and every local index is within its entry list.
C8_Partition ==
    matcher_queries = 1 =>
        LET matches == SetMatches(regex_set.regexes, target_path)
            pre_count == Len(pre_middlewares)
            route_count == Len(routes)
            post_count == Len(post_middlewares)
            Range(q) == {q[i] : i \in 1..Len(q)}
        IN /\ Range(matched_pre_middleware_idxs) =
                 {g \in matches : g < pre_count}
           /\ Range(matched_route_idxs) =
                 {g - pre_count : g \in {m \in matches :
                                    m >= pre_count /\ m < pre_count + route_count}}
           /\ Range(matched_post_middleware_idxs) =
                 {g - pre_count - route_count :
                    g \in {m \in matches : m >= pre_count + route_count}}
           /\ StrictlyAscending(matched_pre_middleware_idxs)
           /\ StrictlyAscending(matched_route_idxs)
           /\ StrictlyAscending(matched_post_middleware_idxs)
           /\ Len(matched_pre_middleware_idxs) + Len(matched_route_idxs)
                 + Len(matched_post_middleware_idxs) = Cardinality(matches)
           /\ \A i \in Range(matched_pre_middleware_idxs) : i >= 0 /\ i < pre_count
           /\ \A i \in Range(matched_route_idxs) : i >= 0 /\ i < route_count
           /\ \A i \in Range(matched_post_middleware_idxs) : i >= 0 /\ i < post_count

C8_Witness ==
    /\ matcher_queries = 1
    /\ matched_pre_middleware_idxs # <<>>
    /\ matched_route_idxs # <<>>
    /\ matched_post_middleware_idxs # <<>>
    /\ Len(matched_pre_middleware_idxs) + Len(matched_route_idxs)
          + Len(matched_post_middleware_idxs) = Len(regex_set.regexes)

\* C9: a call whose path does not decode returns the path-decoding error, and
\* no handler of any kind has been invoked nor the matcher queried.
C9_DecodeFailure ==
    (pc # "idle" /\ Decoded = DecodeFailure) =>
        /\ pc = "done"
        /\ result.kind = "err"
        /\ result.err.ctx = <<PathDecodeCtx>>
        /\ trace = <<>>
        /\ matcher_queries = 0

C9_Witness ==
    /\ pc = "done"
    /\ Decoded = DecodeFailure
    /\ Frozen /\ HandlersOwned
    /\ Len(regex_set.regexes) >= 2
    /\ SetMatches(regex_set.regexes, req.path) # {}

\* A call with a decodable path on a router never built ends in the panic,
\* before the matcher is queried or a handler invoked, the router still unbuilt.
C10_UnbuiltCall ==
    (pc # "idle" /\ Decodes /\ builds = 0) =>
        /\ pc = "done"
        /\ result = Panic(RegexSetPanic)
        /\ trace = <<>>
        /\ matcher_queries = 0
        /\ ~Frozen

\* A built matcher is init_regex_set's, over the entry lists as they are, and
\* requests are served on a built matcher only.
C10_Built ==
    /\ Frozen => (builds > 0 /\ regex_set.regexes = RegexIter)
    /\ (matcher_queries > 0 \/ trace # <<>>) => Frozen

\* Only an init_regex_set step, between calls, changes the matcher.
C10_BuildOnlyByInit ==
    (regex_set' # regex_set) => (pc = "idle" /\ pc' = "idle" /\ builds' = builds + 1)

\* C10 as amended: dispatching does not build the matcher.  A call with a
\* decodable path on a router whose matcher is not built ends in the
\* "regex_set not initialized" panic with no handler invoked and the matcher
\* still unbuilt; no step of a call changes the matcher, only init_regex_set
\* builds it, from the entry lists as they are, and requests are served only
\* after it.
C10_ExplicitBuild ==
    [](C10_UnbuiltCall /\ C10_Built) /\ [][C10_BuildOnlyByInit]_vars

\* C10 as stated: the first call on an unbuilt router builds the matcher and
\* serves the request.
C10_Original ==
    (pc = "done" /\ Decodes /\ HandlersOwned) => (Frozen /\ result.kind # "panic")

C10_Witness ==
    /\ pc = "done"
    /\ Decodes
    /\ builds = 0
    /\ HandlersOwned
    /\ MatchingPre(Decoded) # {}
    /\ AcceptingRoutes(Decoded, req.method) # {}

----------------------------------------------------------------------------
\* A router whose handler slots were taken by mounting it into another one.
Consumed == ~HandlersOwned

\* C11: every call on a consumed router ends in the "can not be used after
\* mounting" panic: whatever the request, it returns no response and no
\* recoverable error, and no handler is invoked.  Stated for the calls that
\* get as far as dispatching (the path decodes, the matcher is built).
C11_ConsumedPanics ==
    (pc = "done" /\ Consumed /\ Frozen /\ Decodes)
        => /\ result = Panic(MountedPanic)
           /\ trace = <<>>

----------------------------------------------------------------------------
\* The three matched lists of the current call.
MatchedNow ==
    [pre |-> matched_pre_middleware_idxs,
     route |-> matched_route_idxs,
     post |-> matched_post_middleware_idxs]

SeenLists(path) ==
    [pre |-> seen[path].pre, route |-> seen[path].route, post |-> seen[path].post]

\* C12: on a frozen router, every call made with a path gets from
\* match_regex_set the three matched lists that the first call made with that
\* path got, whatever calls were made in between and however they ended.
C12_MatchingIsStable ==
    (pc # "idle" /\ Frozen /\ Decodes)
        => /\ matcher_queries = 1
           /\ seen[target_path].rank > 0
           /\ MatchedNow = SeenLists(target_path)

\* A call with a path first seen before another path was: at least one call
\* with another path lies between the two, and the lists are not empty.
C12_Witness ==
    /\ pc = "pre"
    /\ seen[target_path].rank = 1
    /\ \E p \in DecodedPaths : seen[p].rank = 2 /\ SeenLists(p) # SeenLists(target_path)
    /\ matched_pre_middleware_idxs # <<>>
    /\ matched_route_idxs # <<>>

----------------------------------------------------------------------------
\* What the claim lists of an entry list: its length, its order, the pattern
\* of each entry and, for routes, the method set.
Patterns(entries) == [i \in 1..Len(entries) |-> entries[i].regex]
MethodSetsOf(entries) == [i \in 1..Len(entries) |-> entries[i].methods]

Registered ==
    <<Patterns(pre_middlewares), Patterns(routes), MethodSetsOf(routes),
      Patterns(post_middlewares), err_handler, regex_set>>

\* A step of a process call: it starts one, runs one or ends one.
CallStep == pc # "idle" \/ pc' # "idle"

C13_Frame == (Frozen /\ CallStep) => UNCHANGED Registered

\* C13: once the router is frozen, no step of a process call, however the
\* call ends, changes the three entry lists (length, order, patterns, method
\* sets), whether an error handler is set, or the built matcher.
C13_ProcessFrame == [][C13_Frame]_vars

\* A call on a frozen router in which every kind of handler ran, the route
\* handler failed, the error handler recovered and a post middleware failed.
C13_Witness ==
    /\ pc = "done" /\ Frozen
    /\ Invoked("pre") # <<>>
    /\ FailedAt("route") # {}
    /\ Len(Invoked("err")) = 1
    /\ FailedAt("post") # {}
    /\ result.kind = "err"

----------------------------------------------------------------------------
\* The handlers started in the current call whose future has not resolved.
InProgress == Len(trace) - Len(outcomes)

AwaitStates == {"pre_await", "route_await", "err_await", "post_await"}

\* C14: within one call at most one handler is in progress at any moment,
\* suspended or not: a handler is started only when the future of every
\* handler started before it has resolved, and while one is in progress the
\* call does nothing but await it.
C14_OneHandlerAtATime ==
    /\ InProgress \in {0, 1}
    /\ InProgress = 1 <=> pc \in AwaitStates
    /\ InProgress = 1 <=> running # NoHandler
    /\ InProgress = 1 =>
          running = HandlerCause(trace[Len(trace)].kind, trace[Len(trace)].idx)

\* The fourth handler of a call is suspended, the three before it resolved.
C14_Witness ==
    /\ pc = "post_await"
    /\ Len(trace) = 4
    /\ Len(outcomes) = 3

----------------------------------------------------------------------------
\* What the builder calls made so far amount to, phase by phase: the entries
\* in the order of their declaration, a mounted router standing for its
\* entries of that phase, in their own order, with the prefix in front.
OwnEntry(d) == [regex |-> d.regex, methods |-> d.methods, mounted |-> FALSE]

MountedEntries(d, phase) ==
    [i \in 1..Len(d.child[phase]) |->
        [regex |-> d.regex \o d.child[phase][i].regex,
         methods |-> IF phase = "routes" THEN d.child[phase][i].methods ELSE {},
         mounted |-> TRUE]]

RECURSIVE DeclaredEntries(_, _)
DeclaredEntries(phase, n) ==
    IF n = 0
    THEN <<>>
    ELSE DeclaredEntries(phase, n - 1) \o
            (IF declared[n].op = phase THEN <<OwnEntry(declared[n])>>
             ELSE IF declared[n].op = "scope" THEN MountedEntries(declared[n], phase)
             ELSE <<>>)

AsDeclared(entries, phase) ==
    LET expected == DeclaredEntries(phase, Len(declared))
    IN /\ Len(entries) = Len(expected)
       /\ \A i \in 1..Len(entries) :
             /\ entries[i].regex = expected[i].regex
             /\ phase = "routes" => entries[i].methods = expected[i].methods
             /\ entries[i].handler

Mounted == \E i \in 1..Len(declared) : declared[i].op = "scope"

SlotsEmpty(r) ==
    /\ \A i \in 1..Len(r.pre) : ~r.pre[i].handler
    /\ \A i \in 1..Len(r.routes) : ~r.routes[i].handler
    /\ \A i \in 1..Len(r.post) : ~r.post[i].handler

\* The route handler invocations of the call that went to a mounted route.
MountedInvoked ==
    {i \in 1..Len(trace) :
        /\ trace[i].kind = "route"
        /\ DeclaredEntries("routes", Len(declared))[trace[i].idx + 1].mounted}

\* C15: mounting a router under a prefix leaves, in each phase, the entries in
\* the order of their declaration: the mounted router's entries in their own
\* order, at the place of the mount among the parent's own entries, each with
\* the prefix in front of its own path.  The handlers are then the parent's and
\* the child's slots are empty.  So the child route /items/:id mounted at /api
\* is invoked only for /api/items/42, with id = 42, never for /items/42.
C15_Mount ==
    /\ AsDeclared(pre_middlewares, "pre")
    /\ AsDeclared(routes, "routes")
    /\ AsDeclared(post_middlewares, "post")
    /\ Mounted => SlotsEmpty(child)
    /\ \A i \in MountedInvoked :
          /\ trace[i].target = <<"api", "items", "42">>
          /\ trace[i].captures = {<<"id", "42">>}
    /\ \A i \in 1..Len(trace) :
          trace[i].kind = "route" =>
              trace[i].idx = Least(AcceptingRoutes(Decoded, trace[i].req.method))

\* A router with the route /items/:id is mounted at /api between two routes
\* of the parent, /items/:id before it and /api/items/:id after it, and a
\* call for /api/items/42 goes to the mounted route, with id = 42.
C15_Witness ==
    /\ Len(routes) = 3
    /\ DeclaredEntries("routes", Len(declared))[1].mounted = FALSE
    /\ DeclaredEntries("routes", Len(declared))[2].mounted
    /\ DeclaredEntries("routes", Len(declared))[3].mounted = FALSE
    /\ routes[1].regex = <<"items", ":id">>
    /\ routes[3].regex = <<"api", "items", ":id">>
    /\ pc = "route_await"
    /\ MountedInvoked = {1}
    /\ trace[1].captures = {<<"id", "42">>}

----------------------------------------------------------------------------
\* C16: the request and the response are threaded through the handlers.  The
\* first handler that takes a request (a pre handler, or the route handler
\* when no pre middleware matched) gets the incoming request; every later pre
\* handler and the route handler get the request the pre handler before them
\* returned; every post handler gets the response its predecessor returned
\* (the route handler, the error handler or the post handler before it); and
\* the call returns the response the last handler returned, which is the
\* route's or the error handler's, unchanged, when no post middleware matched.
C16_Threading ==
    /\ \A p \in 1..Len(trace) :
          /\ trace[p].kind \in {"pre", "route"} =>
                IF p = 1
                THEN trace[p].req = req
                ELSE /\ trace[p - 1].kind = "pre"
                     /\ trace[p].req = returned[p - 1].req
          /\ trace[p].kind = "post" =>
                /\ p > 1
                /\ trace[p - 1].kind \in {"route", "err", "post"}
                /\ trace[p].resp = returned[p - 1].resp
    /\ (pc = "done" /\ result.kind = "ok") =>
          /\ Len(returned) = Len(trace)
          /\ trace # <<>>
          /\ result.resp = returned[Len(returned)].resp

\* A pre handler that returned another method and another path, a
\* route handler and a post handler ran, and the call returned a response.
C16_Witness ==
    /\ pc = "done"
    /\ result.kind = "ok"
    /\ Kinds(trace) = <<"pre", "route", "post">>
    /\ returned[1].req.method # req.method
    /\ returned[1].req.path # req.path
    /\ result.resp.via = <<trace[3].idx>>

----------------------------------------------------------------------------
\* The stores made under a name, by their place in the order of the stores.
StoresOf(name) == {i \in 1..Len(stored) : stored[i][1] = name}
Last(S) == CHOOSE x \in S : \A y \in S : y <= x

\* What get must return: nothing for a name never stored, else the value of
\* the latest store under that name.
LastStored(name) ==
    IF StoresOf(name) = {} THEN {} ELSE {stored[Last(StoresOf(name))][2]}

\* C17: after any sequence of set and extend calls a PathParams value holds at
\* most one value per name; get returns the value stored last under the name
\* (an extend overwrites the names both sides have); has(name) holds exactly
\* when get(name) finds a value; and len is the number of distinct names.
C17_PathParams ==
    /\ \A name \in ParamNames :
          /\ Cardinality(get(name)) <= 1
          /\ get(name) = LastStored(name)
          /\ has(name) <=> get(name) # {}
    /\ len = Cardinality({stored[i][1] : i \in 1..Len(stored)})

\* A name set to one value and then overwritten by an extend that also
\* brought a new name.
C17_Witness ==
    /\ Len(stored) = 3
    /\ stored[1][3] = "set"
    /\ stored[2][3] = "extend" /\ stored[3][3] = "extend"
    /\ \E i \in 2..3 : stored[i][1] = stored[1][1] /\ stored[i][2] # stored[1][2]
    /\ len = 2

----------------------------------------------------------------------------
\* The invocations of the error handler in the current call.
ErrCalls == {p \in 1..Len(trace) : trace[p].kind = "err"}

\* C18: the error handler is invoked at most once in a call, and only right
\* after the selected route handler failed, with that failure.  It is not
\* invoked for a path that does not decode, for a pre or post middleware
\* failure (no handler at all is invoked after one), or when no route is found.
C18_ErrHandlerOnlyForRoute ==
    /\ Cardinality(ErrCalls) <= 1
    /\ \A p \in ErrCalls :
          /\ p > 1
          /\ trace[p - 1].kind = "route"
          /\ outcomes[p - 1] = "err"
          /\ trace[p].err = RouteFailed(HandlerCause("route", trace[p - 1].idx))
    /\ \A p \in FailedAt("pre") \cup FailedAt("post") : p = Len(trace)
    /\ (pc = "done" /\ ~Decodes) => trace = <<>>
    /\ (pc = "done" /\ result = NoMatchingRoute) => ErrCalls = {}

\* The route handler failed and the error handler recovered it, then a post
\* middleware failed: the error handler, though set, was not invoked again.
C18_Witness ==
    /\ pc = "done"
    /\ err_handler
    /\ Kinds(trace) = <<"pre", "route", "err", "post">>
    /\ FailedAt("post") = {4}
    /\ result.kind = "err"

----------------------------------------------------------------------------
\* The list holds the members of the set, each once, in ascending order.
Lists(q, S) ==
    /\ StrictlyAscending(q)
    /\ {q[i] : i \in 1..Len(q)} = S

\* C19: a call that ends in the NoMatchingRoute error has by then invoked the
\* handler of every matched pre middleware, in ascending order, each of them
\* succeeding, and has invoked no route, error or post handler; no matched
\* route accepts the method of the request the pre handlers left.
C19_PreBeforeNoRoute ==
    (pc = "done" /\ result = NoMatchingRoute) =>
        /\ Decodes /\ Frozen
        /\ \A p \in 1..Len(trace) : trace[p].kind = "pre"
        /\ Lists(Idxs(trace), MatchingPre(Decoded))
        /\ Len(outcomes) = Len(trace)
        /\ NoHandlerFailed
        /\ Invoked("post") = <<>>
        /\ AcceptingRoutes(Decoded, transformed_req.method) = {}

\* Two pre handlers ran and a route matches the path, but
\* it does not accept the method.
C19_Witness ==
    /\ pc = "done"
    /\ result = NoMatchingRoute
    /\ Len(trace) = 2
    /\ MatchingRoutes(Decoded) # {}

----------------------------------------------------------------------------
\* The request a handler invocation was handed, as the pre handler before it
\* returned it (the incoming one for the first invocation of the call).
HandedOn(p) == IF p = 1 THEN req ELSE returned[p - 1].req

\* C20: the three matched lists and the target path come from one matcher
\* query on the decoded path of the request as it came in, made before any
\* pre handler runs, and stay as they are for the rest of the call: a pre
\* handler that returns another path changes neither the candidates nor the
\* path the route captures its parameters from.  Whether a matched route
\* accepts the method is decided on the request the pre handlers returned.
C20_MatchOnceMethodLate ==
    /\ matcher_queries <= 1
    /\ trace # <<>> => matcher_queries = 1
    /\ (pc # "idle" /\ matcher_queries = 1) =>
          /\ target_path = Decoded
          /\ Lists(matched_pre_middleware_idxs, MatchingPre(Decoded))
          /\ Lists(matched_route_idxs, MatchingRoutes(Decoded))
          /\ Lists(matched_post_middleware_idxs, MatchingPost(Decoded))
    /\ \A p \in 1..Len(trace) :
          /\ trace[p].kind = "pre" => trace[p].idx \in MatchingPre(Decoded)
          /\ trace[p].kind = "post" => trace[p].idx \in MatchingPost(Decoded)
          /\ trace[p].kind = "route" =>
                /\ trace[p].target = Decoded
                /\ trace[p].idx \in AcceptingRoutes(Decoded, HandedOn(p).method)
                /\ \A i \in AcceptingRoutes(Decoded, HandedOn(p).method) :
                      trace[p].idx <= i

\* A pre handler returned another method and another path; the route invoked
\* matches the path that came in, not the one returned, and accepts the method
\* returned, not the one that came in.
C20_Witness ==
    /\ pc = "route_await"
    /\ LET e == trace[Len(trace)]
       IN /\ e.req.method # req.method
          /\ e.req.path # req.path
          /\ ~is_match_method(routes[e.idx + 1], req.method)
          /\ e.idx \notin MatchingRoutes(percent_decode_request_path(e.req.path))

====
